---- MODULE Spec2Model ----
(***************************************************************************)
(* Model of src/src/hook/inner.rs: the global hook registry, the           *)
(* reference-counted InnerHook with its background registration thread,    *)
(* the start-up handshake, teardown (Drop) and the low-level callback.     *)
(*                                                                         *)
(* An Arc<InnerHook> is modelled by its strong count: a caller-held        *)
(* handle, and the temporary produced by Weak::upgrade, each count one.    *)
(* Releasing a reference is an atomic decrement; the release that reaches  *)
(* zero then runs Drop for InnerHook as a later step of the same thread.   *)
(***************************************************************************)
EXTENDS Integers, Sequences, FiniteSets, TLC

\* ---------------------------------------------------------------- bounds
MaxCtx == 2          \* InnerHook contexts created in one run
MaxQueue == 2        \* events waiting in the channel
MaxClones == 1       \* InnerHook::clone calls per context

\* ------------------------------------------------------------- constants
WM_KEYDOWN == 256
WM_KEYUP == 257
WM_SYSKEYDOWN == 260
WM_SYSKEYUP == 261
OtherAction == 512   \* an action code of the default arm (WM_MOUSEMOVE)

\* The OS may call the procedure of any registered hook with any filter code
\* and any action code.
Kinds == {"Keyboard", "Mouse"}
Callers == {"t1", "t2"}
CtxIds == 1..MaxCtx
NoCtx == 0
NULL == 0
FilterCodes == {-1, 0}

\* A WPARAM is 64 bits wide: hi and lo are its upper and lower 32 bits.
Wparam(hi, lo) == [hi |-> hi, lo |-> lo]
NoWm == Wparam(0, 0)

\* `wm_key_code as u32`: the cast keeps the lower 32 bits
AsU32(wm) == wm.lo

\* the four key codes, a code of the default arm, and a code that differs
\* from WM_KEYDOWN by 2^32
ActionCodes == {Wparam(0, WM_KEYDOWN), Wparam(0, WM_KEYUP), Wparam(0, WM_SYSKEYDOWN),
                Wparam(0, WM_SYSKEYUP), Wparam(0, OtherAction), Wparam(1, WM_KEYDOWN)}
LParams == {1}              \* event-details pointers the OS passes
ChainResults == {0, 1}      \* values CallNextHookEx may return
Senders == 2                \* Sender clones kept in the static GLOBAL_CHANNEL

\* no callback output / no try_recv result
NoOut == [n |-> 0, code |-> 0, wm |-> NoWm, lp |-> 0, res |-> 0, ret |-> 0, sent |-> 0]
NoRecv == [tag |-> "none", kc |-> "none", src |-> 0]

VARIABLES
    pc,          \* caller thread -> position in setup_*_hook / drop
    akind,       \* caller thread -> kind of the call in progress
    actx,        \* caller thread -> context the call is working on
    held,        \* caller thread -> set of contexts it holds an Arc of
    registry,    \* kind -> context the Weak in GLOBAL_*_HOOK points to (NoCtx: None)
    locked,      \* kind -> GLOBAL_*_HOOK mutex is held
    nCtx,        \* number of InnerHook contexts created so far
    kind,        \* context -> hook kind it was created for
    strong,      \* context -> Arc strong count
    token,       \* context -> RawHook content (NULL: unset)
    hhook,       \* context -> background thread's local hhook
    started,     \* context -> readiness flag
    tpc,         \* context -> position of the background thread
    osHooks,     \* set of tokens registered with the OS and not unregistered
    unhookCalls, \* context -> number of UnhookWindowsHookEx calls with its token
    cbpc,        \* context -> position of the callback running on its thread
    cbcode,      \* context -> filter code of the callback in progress
    cbwm,        \* context -> action code of the callback in progress
    cbtmp,       \* context -> context the callback holds a temporary Arc of
    cblp,        \* context -> event-details pointer of the callback in progress
    cbout,       \* context -> what the finished callback did: chain call, result, sends
    rres,        \* caller thread -> result of the try_recv that is returning
    clones,      \* context -> number of live InnerHook values cloned from it
    pristine,    \* history: the newest context was created when every earlier
                 \* one was torn down, and no callback has been entered since
    q,           \* GLOBAL_CHANNEL: events sent and not yet received
    heldAll,     \* history: a caller held the kind during the whole call so far
    fresh,       \* history: the call began with no handle of the kind and ran alone
    anyDrop      \* history: kind -> a caller has dropped a handle of the kind

vars == <<pc, akind, actx, held, registry, locked, nCtx, kind, strong, token,
          hhook, started, tpc, osHooks, unhookCalls, cbpc, cbcode, cbwm, cbtmp,
          cblp, cbout, rres, clones, pristine, q, heldAll, fresh, anyDrop>>

callerVars == <<pc, akind, actx, held, heldAll, fresh, anyDrop, rres, clones, pristine>>
cbVars == <<cbpc, cbcode, cbwm, cbtmp, cblp, cbout, q>>
threadVars == <<hhook, started, tpc>>

\* ------------------------------------------------------------- RawHook
RawHook_new == NULL
RawHook_set(old, h) == h
RawHook_get(raw) == raw

\* --------------------------------------------------------------- helpers
\* variant: the registry's reference resolves although no strong reference is left
UpgradeDead(k) == registry[k]

\* Weak::upgrade on the registry slot of kind k: the context it yields, or NoCtx
Upgrade(k) ==
    IF registry[k] # NoCtx /\ strong[registry[k]] > 0 THEN registry[k] ELSE NoCtx

\* what is_hook_present(k) would answer in the current state
IsHookPresent(k) == Upgrade(k) # NoCtx

Holders(k) == {t \in Callers : \E c \in held[t] : kind[c] = k}
Acquiring(k) == {t \in Callers : pc[t] \in {"ip", "ip_tmp", "ip_drop", "sh", "wait", "parked"}
                                  /\ akind[t] = k}

Init ==
    /\ pc = [t \in Callers |-> "idle"]
    /\ akind = [t \in Callers |-> "Keyboard"]
    /\ actx = [t \in Callers |-> NoCtx]
    /\ held = [t \in Callers |-> {}]
    /\ registry = [k \in Kinds |-> NoCtx]
    /\ locked = [k \in Kinds |-> FALSE]
    /\ nCtx = 0
    /\ kind = [c \in CtxIds |-> "Keyboard"]
    /\ strong = [c \in CtxIds |-> 0]
    /\ token = [c \in CtxIds |-> RawHook_new]
    /\ hhook = [c \in CtxIds |-> NULL]
    /\ started = [c \in CtxIds |-> FALSE]
    /\ tpc = [c \in CtxIds |-> "none"]
    /\ osHooks = {}
    /\ unhookCalls = [c \in CtxIds |-> 0]
    /\ cbpc = [c \in CtxIds |-> "idle"]
    /\ cbcode = [c \in CtxIds |-> 0]
    /\ cbwm = [c \in CtxIds |-> NoWm]
    /\ clones = [c \in CtxIds |-> 0]
    /\ cbtmp = [c \in CtxIds |-> NoCtx]
    /\ cblp = [c \in CtxIds |-> 0]
    /\ cbout = [c \in CtxIds |-> NoOut]
    /\ rres = [t \in Callers |-> NoRecv]
    /\ pristine = FALSE
    /\ q = <<>>
    /\ heldAll = [t \in Callers |-> FALSE]
    /\ fresh = [t \in Callers |-> FALSE]
    /\ anyDrop = [k \in Kinds |-> FALSE]

\* ------------------------------------------------- decisions of the code
\* variant: setup_hook without the re-check under the lock
SetupHookAlwaysCreate(k) == NoCtx

\* setup_hook: the Arc it returns instead of creating one (NoCtx: create)
SetupHookReuse(k) == Upgrade(k)

\* variant: setup_*_hook ignores the answer of is_hook_present
PresentAnswerNever(up) == FALSE

\* setup_*_hook: is_hook_present's answer from the upgrade it made
PresentAnswer(up) == up # NoCtx

\* Arc: the release that leaves n strong references runs Drop for InnerHook
ReleaseRunsDrop(n) == n = 0

\* variant: Drop without the NULL test
DropAlwaysUnhooks(h) == TRUE

\* Drop for InnerHook: UnhookWindowsHookEx is called for handle h
DropCallsUnhook(h) == h # NULL

\* variant: InnerHook::new does not wait for the flag
WaitSkipped(f) == TRUE

\* InnerHook::new, `while !*started`: the loop is left when the flag reads f
WaitDone(f) == f

\* variant: readiness is signalled only when the registration succeeded
ReadyOnlyOnSuccess(h) == h # NULL

\* background thread: the value stored in *started after registration gave h
ReadyFlag(h) == TRUE

\* background thread: `if hhook as usize != 0usize` stores the handle
StoresHandle(h) == h # NULL

\* Drop for InnerHook run on context c
DropInner(c) ==
    LET h == RawHook_get(token[c]) IN
    IF DropCallsUnhook(h)
    THEN /\ osHooks' = osHooks \ {h}
         /\ unhookCalls' = [unhookCalls EXCEPT ![c] = @ + 1]
    ELSE UNCHANGED <<osHooks, unhookCalls>>

\* ------------------------------------------------------ caller threads
\* entry of setup_keyboard_hook / setup_mouse_hook
BeginAcquire(t, k) ==
    /\ pc[t] = "idle"
    /\ nCtx + Cardinality({u \in Callers : pc[u] \in {"ip", "ip_tmp", "ip_drop", "sh"}}) < MaxCtx
    /\ pc' = [pc EXCEPT ![t] = "ip"]
    /\ akind' = [akind EXCEPT ![t] = k]
    /\ heldAll' = [heldAll EXCEPT ![t] = Holders(k) # {}]
    /\ fresh' = [u \in Callers |->
                   IF u = t THEN Holders(k) = {} /\ Acquiring(k) = {}
                   ELSE IF u \in Acquiring(k) THEN FALSE ELSE fresh[u]]
    /\ UNCHANGED <<actx, held, anyDrop, registry, locked, nCtx, kind, strong, token,
                   osHooks, unhookCalls>>
    /\ UNCHANGED <<threadVars, cbVars, rres, clones, pristine>>

\* the call of thread t returns to its caller
Return(t) ==
    /\ pc' = [pc EXCEPT ![t] = "idle"]
    /\ akind' = [akind EXCEPT ![t] = "Keyboard"]
    /\ actx' = [actx EXCEPT ![t] = NoCtx]
    /\ heldAll' = [heldAll EXCEPT ![t] = FALSE]
    /\ fresh' = [fresh EXCEPT ![t] = FALSE]

\* setup_*_hook once is_hook_present has answered from upgrade result up:
\* `if is_hook_present(..) { None } else { Some(setup_hook(..)) }`
AfterPresent(t, up) ==
    IF PresentAnswer(up)
    THEN Return(t)
    ELSE /\ pc' = [pc EXCEPT ![t] = "sh"]
         /\ actx' = [actx EXCEPT ![t] = NoCtx]
         /\ UNCHANGED <<akind, heldAll, fresh>>

\* is_hook_present: lock the slot and upgrade the Weak
IsPresentCheck(t) ==
    /\ pc[t] = "ip"
    /\ ~locked[akind[t]]
    /\ LET up == Upgrade(akind[t]) IN
       IF up # NoCtx
       THEN /\ strong' = [strong EXCEPT ![up] = @ + 1]
            /\ locked' = [locked EXCEPT ![akind[t]] = TRUE]
            /\ actx' = [actx EXCEPT ![t] = up]
            /\ pc' = [pc EXCEPT ![t] = "ip_tmp"]
            /\ UNCHANGED <<akind, heldAll, fresh>>
       ELSE /\ AfterPresent(t, up)
            /\ UNCHANGED <<strong, locked>>
    /\ UNCHANGED <<held, anyDrop, registry, nCtx, kind, token, osHooks, unhookCalls>>
    /\ UNCHANGED <<threadVars, cbVars, rres, clones, pristine>>

\* is_hook_present: the temporary Arc is released at the end of the condition
IsPresentRelease(t) ==
    /\ pc[t] = "ip_tmp"
    /\ LET c == actx[t] IN
       /\ strong' = [strong EXCEPT ![c] = @ - 1]
       /\ IF ReleaseRunsDrop(strong[c] - 1)
          THEN /\ pc' = [pc EXCEPT ![t] = "ip_drop"]
               /\ UNCHANGED <<locked, akind, actx, heldAll, fresh>>
          ELSE /\ AfterPresent(t, c)
               /\ locked' = [locked EXCEPT ![akind[t]] = FALSE]
    /\ UNCHANGED <<held, anyDrop, registry, nCtx, kind, token, osHooks, unhookCalls>>
    /\ UNCHANGED <<threadVars, cbVars, rres, clones, pristine>>

\* is_hook_present: the temporary was the last reference, Drop runs here
IsPresentDrop(t) ==
    /\ pc[t] = "ip_drop"
    /\ DropInner(actx[t])
    /\ AfterPresent(t, actx[t])
    /\ locked' = [locked EXCEPT ![akind[t]] = FALSE]
    /\ UNCHANGED <<held, anyDrop, registry, nCtx, kind, strong, token>>
    /\ UNCHANGED <<threadVars, cbVars, rres, clones, pristine>>

\* setup_hook: kb_hook_guard is alive while InnerHook::new runs
GuardHeldDuringNew == TRUE

\* every context created so far is torn down and no callback is running
NoneAlive ==
    /\ \A d \in 1..nCtx :
          /\ strong[d] = 0
          /\ \A u \in Callers : actx[u] # d
          /\ \A e \in CtxIds : cbtmp[e] # d
    /\ \A d \in CtxIds : cbpc[d] = "idle"

\* setup_hook: lock the slot; return the live Arc, or start InnerHook::new
\* (create the RawHook and the readiness flag, spawn the background thread)
SetupHookLock(t) ==
    /\ pc[t] = "sh"
    /\ ~locked[akind[t]]
    /\ LET c == SetupHookReuse(akind[t]) IN
       IF c # NoCtx
       THEN /\ strong' = [strong EXCEPT ![c] = @ + 1]
            /\ held' = [held EXCEPT ![t] = @ \cup {c}]
            /\ Return(t)
            /\ UNCHANGED <<locked, nCtx, kind, token, tpc, started, hhook, pristine>>
       ELSE /\ nCtx' = nCtx + 1
            /\ pristine' = NoneAlive
            /\ kind' = [kind EXCEPT ![nCtx + 1] = akind[t]]
            /\ token' = [token EXCEPT ![nCtx + 1] = RawHook_new]
            /\ started' = [started EXCEPT ![nCtx + 1] = FALSE]
            /\ hhook' = [hhook EXCEPT ![nCtx + 1] = NULL]
            /\ tpc' = [tpc EXCEPT ![nCtx + 1] = "reg"]
            /\ locked' = [locked EXCEPT ![akind[t]] = GuardHeldDuringNew]
            /\ actx' = [actx EXCEPT ![t] = nCtx + 1]
            /\ pc' = [pc EXCEPT ![t] = "wait"]
            /\ UNCHANGED <<strong, held, akind, heldAll, fresh>>
    /\ UNCHANGED <<anyDrop, registry, osHooks, unhookCalls>>
    /\ UNCHANGED <<cbVars, rres, clones>>

\* InnerHook::new: test the flag under start_lock; wait on the condvar, or
\* return, after which setup_hook stores the Weak and hands out the Arc
WaitStarted(t) ==
    /\ pc[t] = "wait"
    /\ LET c == actx[t] IN
       IF WaitDone(started[c])
       THEN /\ strong' = [strong EXCEPT ![c] = 1]
            /\ registry' = [registry EXCEPT ![akind[t]] = c]
            /\ locked' = [locked EXCEPT ![akind[t]] = FALSE]
            /\ held' = [held EXCEPT ![t] = @ \cup {c}]
            /\ Return(t)
       ELSE /\ pc' = [pc EXCEPT ![t] = "parked"]
            /\ UNCHANGED <<strong, registry, locked, held, akind, actx, heldAll, fresh>>
    /\ UNCHANGED <<anyDrop, nCtx, kind, token, osHooks, unhookCalls>>
    /\ UNCHANGED <<threadVars, cbVars, rres, clones, pristine>>

\* Condvar::wait may return without a notification
SpuriousWake(t) ==
    /\ pc[t] = "parked"
    /\ pc' = [pc EXCEPT ![t] = "wait"]
    /\ UNCHANGED <<akind, actx, held, heldAll, fresh, anyDrop, registry, locked,
                   nCtx, kind, strong, token, osHooks, unhookCalls>>
    /\ UNCHANGED <<threadVars, cbVars, rres, clones, pristine>>

\* a caller lets go of one Arc<InnerHook>
DropHandle(t, c) ==
    /\ pc[t] = "idle"
    /\ c \in held[t]
    /\ held' = [held EXCEPT ![t] = @ \ {c}]
    /\ strong' = [strong EXCEPT ![c] = @ - 1]
    /\ anyDrop' = [anyDrop EXCEPT ![kind[c]] = TRUE]
    /\ heldAll' = [u \in Callers |->
                     heldAll[u] /\ ~(akind[u] = kind[c]
                                     /\ \A v \in Callers : \A d \in held'[v] : kind[d] # kind[c])]
    /\ IF ReleaseRunsDrop(strong[c] - 1)
       THEN /\ pc' = [pc EXCEPT ![t] = "drop"]
            /\ actx' = [actx EXCEPT ![t] = c]
       ELSE UNCHANGED <<pc, actx>>
    /\ pristine' = FALSE
    /\ UNCHANGED <<akind, fresh, registry, locked, nCtx, kind, token, osHooks,
                   unhookCalls>>
    /\ UNCHANGED <<threadVars, cbVars, rres, clones>>

\* Drop for InnerHook on the caller that released the last reference
DropRun(t) ==
    /\ pc[t] = "drop"
    /\ DropInner(actx[t])
    /\ pc' = [pc EXCEPT ![t] = "idle"]
    /\ actx' = [actx EXCEPT ![t] = NoCtx]
    /\ UNCHANGED <<akind, held, heldAll, fresh, anyDrop, registry, locked,
                   nCtx, kind, strong, token>>
    /\ UNCHANGED <<threadVars, cbVars, rres, clones, pristine>>

\* InnerHook::clone (derived): a caller that holds a handle of c makes a
\* second InnerHook value that shares c's RawHook
CloneInner(t, c) ==
    /\ pc[t] = "idle"
    /\ c \in held[t]
    /\ clones[c] + unhookCalls[c] < MaxClones
    /\ clones' = [clones EXCEPT ![c] = @ + 1]
    /\ UNCHANGED <<pc, akind, actx, held, heldAll, fresh, anyDrop, rres, pristine,
                   registry, locked, nCtx, kind, strong, token, osHooks, unhookCalls,
                   threadVars, cbVars>>

\* a cloned InnerHook value goes out of scope: Drop for InnerHook runs on it
DropClone(t, c) ==
    /\ pc[t] = "idle"
    /\ clones[c] > 0
    /\ clones' = [clones EXCEPT ![c] = @ - 1]
    /\ DropInner(c)
    /\ UNCHANGED <<pc, akind, actx, held, heldAll, fresh, anyDrop, rres, pristine,
                   registry, locked, nCtx, kind, strong, token, threadVars, cbVars>>

\* variant: an empty channel counts as disconnected whatever senders exist
RecvResultDisconnects(queue, n) ==
    IF queue # <<>> THEN [tag |-> "Ok", kc |-> Head(queue).kc, src |-> Head(queue).src]
    ELSE [tag |-> "Disconnected", kc |-> "none", src |-> 0]

\* Receiver::try_recv on a channel holding `queue` with n Sender clones alive
RecvResult(queue, n) ==
    IF queue # <<>> THEN [tag |-> "Ok", kc |-> Head(queue).kc, src |-> Head(queue).src]
    ELSE IF n = 0 THEN [tag |-> "Disconnected", kc |-> "none", src |-> 0]
    ELSE [tag |-> "Empty", kc |-> "none", src |-> 0]

\* Receiver::try_recv: what is left in the channel
RecvRest(queue) == IF queue # <<>> THEN Tail(queue) ELSE queue

\* InnerHook::try_recv: lock the receiver (the guard lives until the call
\* returns) and poll it
TryRecv(t) ==
    /\ pc[t] = "idle"
    /\ \A u \in Callers : pc[u] # "recvd"
    /\ rres' = [rres EXCEPT ![t] = RecvResult(q, Senders)]
    /\ q' = RecvRest(q)
    /\ pc' = [pc EXCEPT ![t] = "recvd"]
    /\ UNCHANGED <<akind, actx, held, heldAll, fresh, anyDrop, registry, locked,
                   nCtx, kind, strong, token, osHooks, unhookCalls, threadVars,
                   cbpc, cbcode, cbwm, cbtmp, cblp, cbout, clones, pristine>>

\* InnerHook::try_recv unlocks the receiver and returns its result
RecvReturn(t) ==
    /\ pc[t] = "recvd"
    /\ pc' = [pc EXCEPT ![t] = "idle"]
    /\ rres' = [rres EXCEPT ![t] = NoRecv]
    /\ UNCHANGED <<akind, actx, held, heldAll, fresh, anyDrop, registry, locked,
                   nCtx, kind, strong, token, osHooks, unhookCalls, threadVars, cbVars,
                   clones, pristine>>

\* --------------------------------------------------- background thread
\* SetWindowsHookExA returns a fresh token, or NULL when the OS refuses
ThreadRegister(c, ok) ==
    /\ tpc[c] = "reg"
    /\ hhook' = [hhook EXCEPT ![c] = IF ok THEN c ELSE NULL]
    /\ osHooks' = IF ok THEN osHooks \cup {c} ELSE osHooks
    /\ tpc' = [tpc EXCEPT ![c] = "set"]
    /\ UNCHANGED <<callerVars, cbVars, registry, locked, nCtx, kind, strong,
                   token, started, unhookCalls>>

\* `if hhook != 0 { exclusive.set(hhook) }`
ThreadStore(c) ==
    /\ tpc[c] = "set"
    /\ token' = [token EXCEPT ![c] = IF StoresHandle(hhook[c])
                                      THEN RawHook_set(@, hhook[c]) ELSE @]
    /\ tpc' = [tpc EXCEPT ![c] = "notify"]
    /\ UNCHANGED <<callerVars, cbVars, registry, locked, nCtx, kind, strong,
                   hhook, started, osHooks, unhookCalls>>

\* `*started = true; start_cvar.notify_one()` under start_lock, which is
\* released at the end of the block
ThreadNotify(c) ==
    /\ tpc[c] = "notify"
    /\ started' = [started EXCEPT ![c] = ReadyFlag(hhook[c])]
    /\ pc' = [t \in Callers |->
                IF pc[t] = "parked" /\ actx[t] = c THEN "wait" ELSE pc[t]]
    /\ tpc' = [tpc EXCEPT ![c] = "ready"]
    /\ UNCHANGED <<akind, actx, held, heldAll, fresh, anyDrop, rres, clones, pristine,
                   cbVars, registry, locked, nCtx, kind, strong, token, hhook, osHooks,
                   unhookCalls>>

\* the thread calls GetMessageA, which does not return
ThreadGetMessage(c) ==
    /\ tpc[c] = "ready"
    /\ tpc' = [tpc EXCEPT ![c] = "getmsg"]
    /\ UNCHANGED <<callerVars, cbVars, registry, locked, nCtx, kind, strong,
                   token, hhook, started, osHooks, unhookCalls>>

\* ------------------------------------------- low_level_keyboard_procedure
\* variant: a negative filter code is processed like any other
SkipsNever(code) == FALSE

\* `code < 0`: the procedure forwards without further processing
SkipsOnCode(code) == code < 0

\* variant: the chain call's value is swallowed and 0 is returned
ForwardedReturnsZero(code, wm, lp, r, sent) ==
    [n |-> 1, code |-> code, wm |-> wm, lp |-> lp, res |-> r, ret |-> 0, sent |-> sent]

\* `return CallNextHookEx(null_mut(), code, wm_key_code, win_hook_struct)`:
\* one chain call with the procedure's own arguments, whose value r is
\* returned; sent is the number of events the invocation sent before it
Forwarded(code, wm, lp, r, sent) ==
    [n |-> 1, code |-> code, wm |-> wm, lp |-> lp, res |-> r, ret |-> r, sent |-> sent]

\* The OS calls the procedure of registered hook c on c's thread, which is
\* in GetMessageA.  `code < 0`: straight to the chain call.
CallbackEnter(c, code, wm, lp) ==
    /\ c \in osHooks
    /\ tpc[c] = "getmsg"
    /\ cbpc[c] = "idle"
    /\ Len(q) + Cardinality({d \in CtxIds : cbpc[d] # "idle"}) < MaxQueue
    /\ cbcode' = [cbcode EXCEPT ![c] = code]
    /\ cbwm' = [cbwm EXCEPT ![c] = wm]
    /\ cblp' = [cblp EXCEPT ![c] = lp]
    /\ cbpc' = [cbpc EXCEPT ![c] = IF SkipsOnCode(code) THEN "fwd" ELSE "check"]
    /\ pristine' = FALSE
    /\ UNCHANGED <<pc, akind, actx, held, heldAll, fresh, anyDrop, rres, clones>>
    /\ UNCHANGED <<threadVars, registry, locked, nCtx, kind, strong,
                   token, osHooks, unhookCalls, cbtmp, cbout, q>>

\* `!is_hook_present(&GLOBAL_KEYBOARD_HOOK)`: lock the slot, upgrade the Weak;
\* no live hook: the lock is released and the chain call comes next
CallbackCheck(c) ==
    /\ cbpc[c] = "check"
    /\ ~locked["Keyboard"]
    /\ LET up == Upgrade("Keyboard") IN
       IF up # NoCtx
       THEN /\ strong' = [strong EXCEPT ![up] = @ + 1]
            /\ locked' = [locked EXCEPT !["Keyboard"] = TRUE]
            /\ cbtmp' = [cbtmp EXCEPT ![c] = up]
            /\ cbpc' = [cbpc EXCEPT ![c] = "tmp"]
       ELSE /\ cbpc' = [cbpc EXCEPT ![c] = "fwd"]
            /\ UNCHANGED <<strong, locked, cbtmp>>
    /\ UNCHANGED <<callerVars, threadVars, registry, nCtx, kind, token, osHooks,
                   unhookCalls, cbcode, cbwm, cblp, cbout, q>>

\* is_hook_present in the callback: the temporary Arc is released
CallbackRelease(c) ==
    /\ cbpc[c] = "tmp"
    /\ LET d == cbtmp[c] IN
       /\ strong' = [strong EXCEPT ![d] = @ - 1]
       /\ IF ReleaseRunsDrop(strong[d] - 1)
          THEN /\ cbpc' = [cbpc EXCEPT ![c] = "drop"]
               /\ UNCHANGED <<locked, cbtmp>>
          ELSE /\ cbpc' = [cbpc EXCEPT ![c] = "classify"]
               /\ cbtmp' = [cbtmp EXCEPT ![c] = NoCtx]
               /\ locked' = [locked EXCEPT !["Keyboard"] = FALSE]
    /\ UNCHANGED <<callerVars, threadVars, registry, nCtx, kind, token, osHooks,
                   unhookCalls, cbcode, cbwm, cblp, cbout, q>>

\* the callback's temporary was the last reference: Drop runs on its thread
CallbackDrop(c) ==
    /\ cbpc[c] = "drop"
    /\ DropInner(cbtmp[c])
    /\ cbpc' = [cbpc EXCEPT ![c] = "classify"]
    /\ cbtmp' = [cbtmp EXCEPT ![c] = NoCtx]
    /\ locked' = [locked EXCEPT !["Keyboard"] = FALSE]
    /\ UNCHANGED <<callerVars, threadVars, registry, nCtx, kind, strong, token,
                   cbcode, cbwm, cblp, cbout, q>>

\* `match wm_key_code as u32`: the KeyCode, or "none" for the default arm
Classify(wm) ==
    IF AsU32(wm) = WM_KEYDOWN THEN "Down"
    ELSE IF AsU32(wm) = WM_KEYUP THEN "Up"
    ELSE IF AsU32(wm) = WM_SYSKEYDOWN THEN "Down"
    ELSE IF AsU32(wm) = WM_SYSKEYUP THEN "Up"
    ELSE "none"

\* variant: the event overtakes the unread ones
SendKeyInFront(queue, kc, c) == <<[kc |-> kc, src |-> c]>> \o queue

\* send_key: Sender::send on keyboard_sender puts the event behind the others
SendKey(queue, kc, c) == Append(queue, [kc |-> kc, src |-> c])

\* the match: the default arm goes to the chain call; the other arms go on
\* to send_key, which locks keyboard_sender, sends and unlocks
CallbackSend(c) ==
    /\ cbpc[c] = "classify"
    /\ LET kc == Classify(cbwm[c]) IN
       IF kc = "none"
       THEN /\ q' = q
            /\ cbpc' = [cbpc EXCEPT ![c] = "fwd"]
       ELSE /\ q' = SendKey(q, kc, c)
            /\ cbpc' = [cbpc EXCEPT ![c] = "sent"]
    /\ UNCHANGED <<callerVars, threadVars, registry, locked, nCtx, kind, strong,
                   token, osHooks, unhookCalls, cbcode, cbwm, cblp, cbtmp, cbout>>

\* CallNextHookEx(null_mut(), code, wm_key_code, win_hook_struct) gives r
CallbackChain(c, r) ==
    /\ cbpc[c] \in {"fwd", "sent"}
    /\ cbout' = [cbout EXCEPT ![c] =
                    Forwarded(cbcode[c], cbwm[c], cblp[c], r,
                              IF cbpc[c] = "sent" THEN 1 ELSE 0)]
    /\ cbpc' = [cbpc EXCEPT ![c] = "ret"]
    /\ UNCHANGED <<callerVars, threadVars, registry, locked, nCtx, kind, strong,
                   token, osHooks, unhookCalls, cbcode, cbwm, cblp, cbtmp, q>>

\* the procedure returns the chain call's value to the OS
CallbackReturn(c) ==
    /\ cbpc[c] = "ret"
    /\ cbpc' = [cbpc EXCEPT ![c] = "idle"]
    /\ cbcode' = [cbcode EXCEPT ![c] = 0]
    /\ cbwm' = [cbwm EXCEPT ![c] = NoWm]
    /\ cblp' = [cblp EXCEPT ![c] = 0]
    /\ cbout' = [cbout EXCEPT ![c] = NoOut]
    /\ UNCHANGED <<callerVars, threadVars, registry, locked, nCtx, kind, strong,
                   token, osHooks, unhookCalls, cbtmp, q>>

\* ------------------------------------------------------- specification
\* setup_keyboard_hook / setup_mouse_hook and the drop of a handle
AcquireStep(t) ==
    \/ \E k \in Kinds : BeginAcquire(t, k)
    \/ IsPresentCheck(t)
    \/ IsPresentRelease(t)
    \/ IsPresentDrop(t)
    \/ SetupHookLock(t)
    \/ WaitStarted(t)
    \/ SpuriousWake(t)
    \/ \E c \in CtxIds : DropHandle(t, c)
    \/ DropRun(t)

\* InnerHook::clone and the drop of the clone
CloneStep(t) ==
    \/ \E c \in CtxIds : CloneInner(t, c)
    \/ \E c \in CtxIds : DropClone(t, c)

\* InnerHook::try_recv
RecvStep(t) ==
    \/ TryRecv(t)
    \/ RecvReturn(t)

CallerStep(t) ==
    \/ AcquireStep(t)
    \/ CloneStep(t)
    \/ RecvStep(t)

\* the steps of a call in progress, which the scheduler must eventually run
CallerProgress(t) ==
    \/ IsPresentCheck(t)
    \/ IsPresentRelease(t)
    \/ IsPresentDrop(t)
    \/ SetupHookLock(t)
    \/ WaitStarted(t)
    \/ DropRun(t)
    \/ RecvReturn(t)

ThreadStep(c) ==
    \/ \E ok \in BOOLEAN : ThreadRegister(c, ok)
    \/ ThreadStore(c)
    \/ ThreadNotify(c)
    \/ ThreadGetMessage(c)

\* one step of the procedure of hook c, its inputs drawn from wms and rs
CallbackStepOn(c, wms, rs) ==
    \/ \E code \in FilterCodes, wm \in wms, lp \in LParams :
          CallbackEnter(c, code, wm, lp)
    \/ CallbackCheck(c)
    \/ CallbackRelease(c)
    \/ CallbackDrop(c)
    \/ CallbackSend(c)
    \/ \E r \in rs : CallbackChain(c, r)
    \/ CallbackReturn(c)

CallbackStep(c) == CallbackStepOn(c, ActionCodes, ChainResults)

CallbackProgress(c) ==
    \/ CallbackCheck(c)
    \/ CallbackRelease(c)
    \/ CallbackDrop(c)
    \/ CallbackSend(c)
    \/ \E r \in ChainResults : CallbackChain(c, r)
    \/ CallbackReturn(c)

Next ==
    \/ \E t \in Callers : CallerStep(t)
    \/ \E c \in CtxIds : ThreadStep(c)
    \/ \E c \in CtxIds : CallbackStep(c)

Spec == Init /\ [][Next]_vars

\* The handles' life cycle (acquire, clone, poll, drop, the background
\* threads) does not depend on which action code a callback carries nor on
\* what the chain call returns: HandleSpec draws them from one recognized
\* code, which takes the longest path through the procedure, and one chain
\* result.
LiveActionCodes == {Wparam(0, WM_KEYUP)}
LiveChainResults == {0}

HandleNext ==
    \/ \E t \in Callers : CallerStep(t)
    \/ \E c \in CtxIds : ThreadStep(c)
    \/ \E c \in CtxIds : CallbackStepOn(c, LiveActionCodes, LiveChainResults)

HandleSpec == Init /\ [][HandleNext]_vars

\* The procedure, with action codes for each outcome of the match (Down, Up,
\* nothing, and Down for the code whose lower 32 bits are WM_KEYDOWN) and every
\* chain result, beside handles that are acquired, polled and dropped but
\* not cloned.
OutcomeCodes == {Wparam(0, WM_SYSKEYDOWN), Wparam(0, WM_SYSKEYUP), Wparam(0, OtherAction),
                 Wparam(1, WM_KEYDOWN)}

CallbackNext ==
    \/ \E t \in Callers : AcquireStep(t) \/ RecvStep(t)
    \/ \E c \in CtxIds : ThreadStep(c)
    \/ \E c \in CtxIds : CallbackStepOn(c, OutcomeCodes, ChainResults)

CallbackSpec == Init /\ [][CallbackNext]_vars

\* Acquire and drop alone, beside the threads and the procedure.
LiveNext ==
    \/ \E t \in Callers : AcquireStep(t)
    \/ \E c \in CtxIds : ThreadStep(c)
    \/ \E c \in CtxIds : CallbackStepOn(c, LiveActionCodes, LiveChainResults)

\* every running thread is eventually scheduled; a mutex that is released is
\* eventually obtained by a thread blocked on it
Fairness ==
    /\ \A t \in Callers : SF_vars(CallerProgress(t))
    /\ \A c \in CtxIds : WF_vars(ThreadStep(c))
    /\ \A c \in CtxIds : SF_vars(CallbackProgress(c))

FairSpec == Init /\ [][LiveNext]_vars /\ Fairness

TypeOK ==
    /\ pristine \in BOOLEAN
    /\ pc \in [Callers -> {"idle", "ip", "ip_tmp", "ip_drop", "sh", "wait", "parked", "drop", "recvd"}]
    /\ akind \in [Callers -> Kinds]
    /\ actx \in [Callers -> 0..MaxCtx]
    /\ held \in [Callers -> SUBSET CtxIds]
    /\ registry \in [Kinds -> 0..MaxCtx]
    /\ locked \in [Kinds -> BOOLEAN]
    /\ nCtx \in 0..MaxCtx
    /\ kind \in [CtxIds -> Kinds]
    /\ strong \in [CtxIds -> Nat]
    /\ token \in [CtxIds -> 0..MaxCtx]
    /\ hhook \in [CtxIds -> 0..MaxCtx]
    /\ started \in [CtxIds -> BOOLEAN]
    /\ tpc \in [CtxIds -> {"none", "reg", "set", "notify", "ready", "getmsg"}]
    /\ osHooks \subseteq CtxIds
    /\ unhookCalls \in [CtxIds -> 0..(MaxClones + 1)]
    /\ clones \in [CtxIds -> 0..MaxClones]
    /\ cbwm \in [CtxIds -> ActionCodes \cup {NoWm}]
    /\ cbpc \in [CtxIds -> {"idle", "check", "tmp", "drop", "classify", "fwd", "sent", "ret"}]
    /\ \A c \in CtxIds : cbout[c].n \in 0..1 /\ cbout[c].sent \in 0..1
    /\ \A t \in Callers : rres[t].tag \in {"none", "Ok", "Empty", "Disconnected"}
    /\ Len(q) <= MaxQueue
    /\ heldAll \in [Callers -> BOOLEAN]
    /\ fresh \in [Callers -> BOOLEAN]
    /\ anyDrop \in [Kinds -> BOOLEAN]

\* ----------------------------------------------------------------- claims
InAcquire(t) == pc[t] \in {"ip", "ip_tmp", "ip_drop", "sh", "wait", "parked"}

\* number of SetWindowsHookExA calls made so far for kind k
RegCalls(k) == Cardinality({c \in CtxIds : kind[c] = k /\ tpc[c] \in {"set", "notify", "ready", "getmsg"}})

\* contexts of kind k that are registered with the OS right now
Registered(k) == {c \in osHooks : kind[c] = k}

HeldBySomeone(c) == \E t \in Callers : c \in held[t]

\* InnerHook::new for context c has not returned yet
UnderConstruction(c) == \E t \in Callers : pc[t] \in {"wait", "parked"} /\ actx[t] = c

\* Drop for InnerHook is pending on some thread for context c
DropInProgress(c) ==
    \/ \E t \in Callers : pc[t] \in {"drop", "ip_drop"} /\ actx[t] = c
    \/ \E d \in CtxIds : cbpc[d] = "drop" /\ cbtmp[d] = c

\* context c was handed out, every reference is gone and its Drop has run
Dead(c) ==
    /\ c <= nCtx
    /\ strong[c] = 0
    /\ ~UnderConstruction(c)
    /\ ~DropInProgress(c)

Quiescent ==
    /\ \A t \in Callers : pc[t] = "idle"
    /\ \A c \in CtxIds : cbpc[c] = "idle"

\* C1: as long as no handle of a kind has been dropped, at most one OS
\* registration call has been made for the kind and all handles of the kind
\* that callers received refer to one and the same context
C1_OneRegistration ==
    \A k \in Kinds :
        ~anyDrop[k] =>
            /\ RegCalls(k) <= 1
            /\ \A t, u \in Callers : \A c \in held[t], d \in held[u] :
                   (kind[c] = k /\ kind[d] = k) => c = d

\* two racing acquire(Keyboard) calls both hold the one context, nothing dropped
C1_Witness ==
    /\ ~anyDrop["Keyboard"]
    /\ \E c \in CtxIds : kind[c] = "Keyboard" /\ c \in held["t1"] /\ c \in held["t2"]
    /\ RegCalls("Keyboard") = 1

\* C2: once every handle of a context is dropped and its Drop has run, a
\* context whose registration succeeded has been unregistered exactly once;
\* and an acquire that begins when no handle of the kind is held and runs
\* alone returns a handle of a context it created (a fresh registration),
\* never the dead context the registry still points to
C2_DropThenFresh ==
    /\ [](\A c \in CtxIds : (Dead(c) /\ hhook[c] # NULL) =>
              (unhookCalls[c] = 1 /\ c \notin osHooks))
    /\ [][\A t \in Callers :
            (fresh[t] /\ InAcquire(t) /\ pc'[t] # pc[t]) =>
                /\ pc'[t] \in {"sh", "wait", "parked", "idle"}
                /\ pc'[t] = "idle" =>
                      /\ pc[t] = "wait"
                      /\ actx[t] \in held'[t]
                      /\ actx[t] # registry[akind[t]]
                      /\ registry'[akind[t]] = actx[t]
                      /\ tpc[actx[t]] \in {"ready", "getmsg"}]_vars

\* C3: while a caller holds a handle of a kind, no unregistration call is
\* made for that kind
C3_NoUnhookWhileHeld ==
    [][\A k \in Kinds :
          Holders(k) # {} =>
              \A c \in CtxIds : kind[c] = k => unhookCalls'[c] = unhookCalls[c]]_vars

\* C4: for each kind at most one context is registered with the OS
C4_OneRegisteredPerKind ==
    \A k \in Kinds : Cardinality(Registered(k)) <= 1

\* C5: an acquire during which a caller holds a handle of the kind all along
\* only upgrades and releases the Weak: it returns None (no handle gained),
\* creates no context, and the registry slot keeps its value
C5_NoneWhileHeld ==
    [][\A t \in Callers :
          (heldAll[t] /\ InAcquire(t)) =>
              /\ registry'[akind[t]] = registry[akind[t]]
              /\ pc'[t] # pc[t] =>
                    /\ pc'[t] \in {"ip_tmp", "idle"}
                    /\ held'[t] = held[t]
                    /\ nCtx' = nCtx
                    /\ \A k \in Kinds : RegCalls(k)' = RegCalls(k)]_vars

\* such a call has upgraded the Weak of the held context
C5_Witness ==
    \E t \in Callers :
        /\ heldAll[t] /\ pc[t] = "ip_tmp"
        /\ \E u \in Callers \ {t} : actx[t] \in held[u]

\* C6: UnhookWindowsHookEx is called at most once per context, and only with
\* the token the background thread stored; a context whose token is unset
\* is torn down without the call
C6_UnhookOnceIfSet ==
    \A c \in CtxIds :
        /\ unhookCalls[c] <= 1
        /\ unhookCalls[c] >= 1 =>
              (token[c] # NULL /\ token[c] = hhook[c] /\ tpc[c] \in {"notify", "ready", "getmsg"})
        /\ (Dead(c) /\ token[c] = NULL) => unhookCalls[c] = 0

\* C7: when no acquire, drop or callback is in progress, is_hook_present(k)
\* is true exactly when a caller holds a handle of kind k
C7_PresentIffHeld ==
    Quiescent => \A k \in Kinds : IsHookPresent(k) <=> (Holders(k) # {})

\* handle A of the only keyboard context was dropped, handle B is still held
C7_Witness ==
    /\ Quiescent
    /\ anyDrop["Keyboard"]
    /\ Cardinality({c \in 1..nCtx : kind[c] = "Keyboard"}) = 1
    /\ Holders("Keyboard") # {}
    /\ IsHookPresent("Keyboard")

\* C8: a held handle belongs to a context whose background thread is past
\* its registration attempt and has set the flag: the token is the
\* registered handle, or it is unset because the registration failed and
\* then no later step sets it
C8_ReadyBeforeReturn ==
    /\ [](\A c \in CtxIds :
              HeldBySomeone(c) =>
                  /\ started[c]
                  /\ tpc[c] \in {"ready", "getmsg"}
                  /\ token[c] = hhook[c])
    /\ [][\A c \in CtxIds : HeldBySomeone(c) => token'[c] = token[c]]_vars

\* the handle was returned to the caller before the background thread of
\* its context entered GetMessageA
C8_Witness ==
    \E c \in CtxIds :
        /\ HeldBySomeone(c) /\ token[c] # NULL /\ registry[kind[c]] = c
        /\ tpc[c] = "ready"

\* C9: under fair scheduling every acquire call eventually returns, whether
\* the registration succeeds or fails, and every callback that has to take
\* the registry lock eventually gets past it
C9_AcquireReturns ==
    /\ \A t \in Callers : InAcquire(t) ~> (pc[t] = "idle")
    /\ \A c \in CtxIds : (cbpc[c] = "check") ~> (cbpc[c] = "idle")

\* the constructing caller waits on the condvar while the background thread,
\* whose registration failed, is about to signal readiness
C9_Witness ==
    \E t \in Callers :
        /\ pc[t] = "parked"
        /\ hhook[actx[t]] = NULL
        /\ tpc[actx[t]] = "notify"

\* C10: a context whose registration failed keeps its token unset, is never
\* registered with the OS, never has its callback run or an event sent by
\* it, and is never unregistered, also after its handle is dropped
C10_FailedStaysInert ==
    \A c \in CtxIds :
        (tpc[c] \in {"set", "notify", "ready", "getmsg"} /\ hhook[c] = NULL) =>
            /\ token[c] = NULL
            /\ c \notin osHooks
            /\ unhookCalls[c] = 0
            /\ cbpc[c] = "idle"
            /\ \A i \in 1..Len(q) : q[i].src # c

\* the handle of a failed registration was returned and has been dropped
C10_Witness ==
    \E c \in CtxIds :
        /\ tpc[c] = "getmsg" /\ hhook[c] = NULL
        /\ Dead(c)
        /\ anyDrop[kind[c]]
        /\ clones[c] = 0

\* the action code is one the procedure turns into an event
Recognized(wm) == AsU32(wm) \in {WM_KEYDOWN, WM_KEYUP, WM_SYSKEYDOWN, WM_SYSKEYUP}

\* C11: when the callback of a hook of kind k consults the registry while the
\* registry reports no live hook of kind k, the invocation only forwards to
\* the hook chain: it goes straight to the chain call, having sent no event
C11_StaleCallbackSilent ==
    [][\A c \in CtxIds :
          (/\ cbpc[c] = "check"
           /\ cbpc'[c] # "check"
           /\ Recognized(cbwm[c])
           /\ ~IsHookPresent(kind[c]))
          => (cbpc'[c] = "fwd" /\ q' = q)]_vars

\* C12: an invocation of the callback of hook c that carries a non-negative
\* filter code and a recognized action code and that gets to its chain call
\* while a caller holds the handle of c has put exactly one event, the
\* classified action of hook c, at the end of the channel
C12_HeldHookDelivers ==
    [][\A c \in CtxIds :
          (/\ cbpc[c] \notin {"fwd", "sent"}
           /\ cbpc'[c] \in {"fwd", "sent"}
           /\ cbcode'[c] >= 0
           /\ Recognized(cbwm'[c])
           /\ HeldBySomeone(c)
           /\ hhook[c] # NULL)
          => (/\ cbpc'[c] = "sent"
              /\ q' = Append(q, [kc |-> Classify(cbwm[c]), src |-> c]))]_vars

\* C13: an invocation of the callback with a negative filter code sends no
\* event, whatever the registry holds: it makes the chain call and returns
\* that call's value, without consulting the registry or the channel
C13_NegativeCodeForwardsOnly ==
    [][\A c \in CtxIds :
          /\ (cbcode[c] < 0) => (cbpc[c] \in {"fwd", "ret"})
          /\ (cbpc[c] = "idle" /\ cbpc'[c] # "idle" /\ cbcode'[c] < 0)
             => (/\ cbpc'[c] = "fwd"
                 /\ q' = q
                 /\ strong' = strong /\ locked' = locked)
          /\ (cbpc[c] = "fwd" /\ cbpc'[c] # "fwd" /\ cbcode[c] < 0)
             => (/\ cbpc'[c] = "ret"
                 /\ q' = q
                 /\ strong' = strong /\ locked' = locked
                 /\ cbout'[c].sent = 0
                 /\ cbout'[c].n = 1
                 /\ cbout'[c].ret = cbout'[c].res)]_vars

\* a negative-code invocation of the keyboard hook's callback is returning
\* while the registry holds a live keyboard hook
C13_Witness ==
    \E c \in CtxIds :
        /\ cbpc[c] = "ret"
        /\ cbcode[c] < 0
        /\ kind[c] = "Keyboard"
        /\ IsHookPresent("Keyboard")
        /\ HeldBySomeone(c)

\* C14: every invocation of the callback, on whichever path it ends, makes
\* the chain call exactly once, at its end, with the filter code, action
\* code and event-details pointer it was called with, and returns the chain
\* call's value unchanged
C14_ChainCalledOnce ==
    [][\A c \in CtxIds :
          /\ (cbpc[c] \notin {"idle", "ret"}) =>
                (/\ cbout[c].n = 0
                 /\ cbpc'[c] # "idle"
                 /\ cbcode'[c] = cbcode[c] /\ cbwm'[c] = cbwm[c] /\ cblp'[c] = cblp[c])
          /\ (cbpc[c] = "idle") => (cbpc'[c] \in {"idle", "check", "fwd"})
          /\ (cbpc[c] # "ret" /\ cbpc'[c] = "ret") => (cbpc[c] \in {"fwd", "sent"})
          /\ (cbpc[c] = "ret") =>
                (/\ cbout[c].n = 1
                 /\ cbout[c].code = cbcode[c]
                 /\ cbout[c].wm = cbwm[c]
                 /\ cbout[c].lp = cblp[c]
                 /\ cbout[c].ret = cbout[c].res
                 /\ cbpc'[c] \in {"ret", "idle"}
                 /\ (cbpc'[c] = "ret" => cbout'[c] = cbout[c]))]_vars

\* two invocations are returning: one sent an event and got a non-zero
\* value from the chain, the other had a negative filter code
C14_Witness ==
    \E c, d \in CtxIds :
        /\ cbpc[c] = "ret" /\ cbout[c].sent = 1 /\ cbout[c].res = 1 /\ cblp[c] # 0
        /\ cbpc[d] = "ret" /\ cbcode[d] < 0

\* the callback of hook c sends an event in this step
Sends(c) == cbpc[c] = "classify" /\ cbpc'[c] = "sent"

\* caller t polls the channel in this step
Polls(t) == pc[t] = "idle" /\ pc'[t] = "recvd"

\* C15: the channel is a queue: a send puts its event behind all unread
\* events, a try_recv takes the oldest unread event and returns it (nothing
\* when there is none), and no other step, a handle drop included, changes
\* the unread events; so the events returned are the events sent, in the
\* order sent, none twice and none missing
C15_FifoDelivery ==
    [][/\ \A c \in CtxIds :
             Sends(c) => q' = Append(q, [kc |-> Classify(cbwm[c]), src |-> c])
       /\ \A t \in Callers :
             Polls(t) =>
                IF q = <<>>
                THEN q' = q /\ rres'[t].tag # "Ok"
                ELSE /\ rres'[t] = [tag |-> "Ok", kc |-> q[1].kc, src |-> q[1].src]
                     /\ q' = SubSeq(q, 2, Len(q))
       /\ ((\A c \in CtxIds : ~Sends(c)) /\ (\A t \in Callers : ~Polls(t))) => q' = q]_vars

\* a try_recv has returned the older of two unread events that differ, and
\* the newer one is still in the channel
C15_Witness ==
    \E t \in Callers :
        /\ pc[t] = "recvd"
        /\ rres[t].tag = "Ok"
        /\ Len(q) = 1
        /\ <<q[1].kc, q[1].src>> # <<rres[t].kc, rres[t].src>>
        /\ \E c \in CtxIds : HeldBySomeone(c)

\* every handle ever handed out has been dropped and torn down, and no
\* acquisition is in progress
AllDropped ==
    /\ nCtx > 0
    /\ \A c \in 1..nCtx : Dead(c)
    /\ \A t \in Callers : ~InAcquire(t) /\ held[t] = {}

\* C16 as stated: a try_recv made after every handle of every kind has been
\* dropped, with nothing left to read, reports Disconnected
C16_DisconnectedAfterLastDrop ==
    [][\A t \in Callers :
          (Polls(t) /\ AllDropped /\ q = <<>>) => rres'[t].tag = "Disconnected"]_vars

\* C16 amended: try_recv never reports Disconnected; made after every handle
\* of every kind has been dropped it returns at once, with the oldest unread
\* event if there is one and with Empty otherwise
C16_NeverDisconnected ==
    [][\A t \in Callers :
          /\ rres[t].tag # "Disconnected"
          /\ (Polls(t) /\ AllDropped) =>
                rres'[t].tag = (IF q = <<>> THEN "Empty" ELSE "Ok")]_vars

\* a try_recv made after all handles were dropped has returned Empty
C16_Witness ==
    \E t \in Callers :
        /\ pc[t] = "recvd"
        /\ rres[t].tag = "Empty"
        /\ AllDropped
        /\ \E k \in Kinds : anyDrop[k]

\* C17: a try_recv made by the holder of a freshly constructed handle, the
\* newest context, created when every earlier handle was dropped and torn
\* down, for which no callback has run since, returns Empty
C17_FreshHandleEmpty ==
    [][\A t \in Callers :
          (Polls(t) /\ pristine /\ nCtx \in held[t]) => rres'[t].tag = "Empty"]_vars

\* C18: once the last handle of context c is dropped and its teardown is
\* done, the background thread of c is not left blocked in GetMessageA: it
\* has ended, or a step that takes it towards its end is possible
C18_ThreadEndsAfterTeardown ==
    \A c \in CtxIds :
        (Dead(c) /\ tpc[c] = "getmsg") => ENABLED ThreadStep(c)

\* C19: no caller holds the registry lock of a kind while the OS
\* registration is being performed on the background thread or while it
\* waits for the readiness flag
C19_LockOnlyForDecision ==
    \A t \in Callers :
        pc[t] \in {"wait", "parked"} => ~locked[akind[t]]

\* C20: when the callback classifies its action code, key-down and
\* system-key-down put a Down event in the channel, key-up and system-key-up
\* an Up event, any other code puts nothing there; in each case the
\* invocation goes on to the chain call with that code and returns, and the
\* step is possible for every action code
C20_ClassificationTotal ==
    [][\A c \in CtxIds :
          /\ (cbpc[c] = "classify") => ENABLED CallbackSend(c)
          /\ (cbpc[c] = "classify" /\ cbpc'[c] # "classify") =>
                /\ cbpc'[c] \in {"fwd", "sent"}
                /\ (cbwm[c] \in {Wparam(0, WM_KEYDOWN), Wparam(0, WM_SYSKEYDOWN)}) =>
                      (q' = Append(q, [kc |-> "Down", src |-> c]) /\ cbpc'[c] = "sent")
                /\ (cbwm[c] \in {Wparam(0, WM_KEYUP), Wparam(0, WM_SYSKEYUP)}) =>
                      (q' = Append(q, [kc |-> "Up", src |-> c]) /\ cbpc'[c] = "sent")
                /\ (cbwm[c] \notin {Wparam(0, WM_KEYDOWN), Wparam(0, WM_SYSKEYDOWN),
                                    Wparam(0, WM_KEYUP), Wparam(0, WM_SYSKEYUP)}) =>
                      (q' = q /\ cbpc'[c] = "fwd")
          /\ (cbpc[c] \in {"fwd", "sent"} /\ cbpc'[c] # cbpc[c]) =>
                /\ cbpc'[c] = "ret"
                /\ cbout'[c].n = 1
                /\ cbout'[c].wm = cbwm[c]
                /\ cbout'[c].sent = (IF cbpc[c] = "sent" THEN 1 ELSE 0)]_vars

====
